---- MODULE Spec2Model ----
(***************************************************************************)
(* Coglex-Mongo: the authentication core (coglex/services/auth/utils.py),  *)
(* the storage adapter it calls (coglex/services/storage/utils.py), the    *)
(* secret utilities (utils.py), the `authenticated` and `protected`        *)
(* decorators (coglex/__init__.py) and the passcode routes                 *)
(* (coglex/services/auth/routes.py).                                       *)
(*                                                                         *)
(* Python values are records [t, v, s] so that values of different Python  *)
(* types can be compared: t is the type tag, v the text, s a number (the   *)
(* salt of a bcrypt hash, the serial of a generated _id).  A dict is a     *)
(* function from field names to values.                                    *)
(***************************************************************************)
EXTENDS Integers, Sequences, FiniteSets, TLC

VARIABLES store, session, nextId, nextSalt, last, secret, calls, issued,
          archive, uploads, held

vars == <<store, session, nextId, nextSalt, last, secret, calls, issued,
          archive, uploads, held>>

----------------------------------------------------------------------------
(* Bounds *)

\* most documents a collection holds
MaxDocs == 2
\* most bcrypt salts drawn (calls of phash)
MaxSalt == 2
\* latest time of a request
MaxTime == 1
\* longest time-to-live, and latest encoding time, of the token round trips
MaxTtl == 2
\* most passcode challenges generated
MaxChallenges == 2
\* longest passcode, and the largest digit drawn for it
MaxLength == 1
MaxDigit == 1
\* the wrong verifications counted against one challenge
MaxAttempts == 1
\* the uploads made
MaxUploads == 3

----------------------------------------------------------------------------
(* Python values *)

None == [t |-> "none", v |-> "", s |-> 0]
Str(x) == [t |-> "str", v |-> x, s |-> 0]
True == [t |-> "bool", v |-> "true", s |-> 0]
False == [t |-> "bool", v |-> "false", s |-> 0]
\* the str bcrypt.hashpw returns: determined by the plaintext and the salt
Bcrypt(plain, salt) == [t |-> "bcrypt", v |-> plain, s |-> salt]
\* the str hexgen returns
Hex(n) == [t |-> "hex", v |-> "", s |-> n]

\* an int
Number(n) == [t |-> "int", v |-> "", s |-> n]
\* the str of decimal digits "".join(...) builds: its digits read after a
\* leading 1, so that "07" and "7" differ
Code(digits) ==
    LET RECURSIVE Read(_)
        Read(i) == IF i = 0 THEN 1 ELSE 10 * Read(i - 1) + digits[i]
    IN  [t |-> "str", v |-> "digits", s |-> Read(Len(digits))]

\* {} held as a value
EmptyValue == [t |-> "dict", v |-> "{}", s |-> 0]
\* Python truthiness of a scalar: None, "", False and {} are falsy
Truthy(x) == ~(x = None \/ x = Str("") \/ x = False \/ x = EmptyValue)

EmptyDict == <<>>
\* {**a, **b}: the keys of b override those of a
Merge(a, b) == b @@ a
\* dict.get(f): the value, or None when the key is absent
Get(d, f) == IF f \in DOMAIN d THEN d[f] ELSE None

----------------------------------------------------------------------------
(* Arguments the callers supply *)

Collections == {"USERS"}
MONGODB_AUTH_COLLECTION == "USERS"
Keys == {"k1", "k2"}
Plain == {"p1", "p2"}
\* the _password argument: absent, or a plaintext
PasswordArgs == {None} \cup {Str(p) : p \in Plain}
\* the _password argument of _signup
SignupPasswords == {None, Str("p1")}
\* the `document` argument of _signup: none, an application field, or a
\* document that carries its own _key and _password
SignupDocs ==
    {EmptyDict, "active" :> True,
     ("_key" :> Str("k1")) @@ ("_password" :> Str("p1"))}
\* the `query` argument of _signin, _retrieve, _refresh
Queries == {EmptyDict, "active" :> True}
\* the `document` argument of _refresh: update operator -> fields
UpdateSpecs ==
    {"$set" :> ("_password" :> Str("p2")),
     "$set" :> ("active" :> True), "$unset" :> ("active" :> Str("")),
     "$set" :> ("_key" :> Str("k1"))}

----------------------------------------------------------------------------
(* coglex/services/storage/utils.py over pymongo *)

\* pymongo's equality filter: every field of the query equals the document's
\* field; a None in the query matches a null or a missing field
Matches(doc, query) ==
    \A f \in DOMAIN query :
        IF query[f] = None
        THEN Get(doc, f) = None
        ELSE f \in DOMAIN doc /\ doc[f] = query[f]

\* _find as it would be were the first match returned (find_one)
_find_one(coll, query) ==
    LET retrievals == SelectSeq(coll, LAMBDA d : Matches(d, query))
    IN  IF Len(retrievals) = 0
        THEN [kind |-> "none", one |-> EmptyDict, many |-> << >>]
        ELSE [kind |-> "dict", one |-> retrievals[1], many |-> << >>]

\* _find: None when nothing matches, the record when one matches, the list
\* of records when several match
_find(coll, query) ==
    LET retrievals == SelectSeq(coll, LAMBDA d : Matches(d, query))
    IN  IF Len(retrievals) = 0
        THEN [kind |-> "none", one |-> EmptyDict, many |-> << >>]
        ELSE IF Len(retrievals) = 1
        THEN [kind |-> "dict", one |-> retrievals[1], many |-> << >>]
        ELSE [kind |-> "list", one |-> EmptyDict, many |-> retrievals]

\* hexgen: the generated _id, a fresh value for every insert
hexgen(n) == Hex(n)

\* _insert of one document: the collection after insert_many([{**document, "_id": hexgen()}])
_insert(coll, document, n) == Append(coll, Merge(document, "_id" :> hexgen(n)))

\* the BSON comparison order over the values a _password takes: null sorts
\* before every string, and strings compare byte by byte, so that
\* "" < "$2b$..." (every bcrypt hash) < "p1" < "p2"
BsonRank(x) ==
    IF x.t = "none" THEN 0
    ELSE IF x = Str("") THEN 1
    ELSE IF x.t = "bcrypt" THEN 2
    ELSE IF x = Str("p1") THEN 3
    ELSE 4

\* one document under an update document: $set assigns, $unset removes,
\* $max assigns where the given value sorts after the stored one (a missing
\* field is assigned)
ApplyUpdate(doc, update) ==
    LET set == IF "$set" \in DOMAIN update THEN Merge(doc, update["$set"]) ELSE doc
        raised == IF "$max" \in DOMAIN update
                  THEN {f \in DOMAIN update["$max"] :
                          f \notin DOMAIN set
                          \/ BsonRank(set[f]) < BsonRank(update["$max"][f])}
                  ELSE {}
        max == Merge(set, [f \in raised |-> update["$max"][f]])
        gone == IF "$unset" \in DOMAIN update THEN DOMAIN update["$unset"] ELSE {}
    IN  [f \in (DOMAIN max) \ gone |-> max[f]]

\* _patch: update_many(query, document); the modified count when a record
\* matched, None when none did
_patch(coll, document, query) ==
    LET hit == {i \in 1..Len(coll) : Matches(coll[i], query)}
        after == [i \in 1..Len(coll) |->
                    IF i \in hit THEN ApplyUpdate(coll[i], document) ELSE coll[i]]
        modified == Cardinality({i \in hit : after[i] # coll[i]})
    IN  [matched |-> hit # {}, count |-> modified, coll |-> after]

----------------------------------------------------------------------------
(* utils.py: bcrypt and PyJWT *)

\* phash: bcrypt.hashpw(password, bcrypt.gensalt())
phash(password, salt) == Bcrypt(password.v, salt)

\* pcheck: bcrypt.checkpw(password.encode(), hashed.encode()).  A hashed that
\* is no str has no encode (AttributeError); a str that is no bcrypt hash is
\* an invalid salt (ValueError)
pcheck(password, hashed) ==
    IF hashed.t \notin {"str", "bcrypt", "hex"} THEN "AttributeError"
    ELSE IF hashed.t # "bcrypt" THEN "ValueError"
    ELSE IF hashed.v = password.v THEN "True" ELSE "False"

\* the `expiration` argument of jwtenc: absent, a datetime.timedelta (a
\* duration, what the callers pass) or a datetime.datetime (an instant, what
\* the signature declares)
NoExpiration == [kind |-> "none", n |-> 0]
Timedelta(n) == [kind |-> "timedelta", n |-> n]
Datetime(n) == [kind |-> "datetime", n |-> n]
\* a non-empty dict given as expiration (json.loads of a query string)
DictExpiration == [kind |-> "dict", n |-> 1]
\* config.SERVER_SESSION_LIFETIME = timedelta(days=8), in days
SERVER_SESSION_LIFETIME == Timedelta(8)

\* truthiness of `expiration`: None and timedelta(0) are falsy
ExpirationGiven(e) ==
    e.kind = "datetime" \/ e.kind = "dict" \/ (e.kind = "timedelta" /\ e.n # 0)

NoToken == [content |-> EmptyDict, exp |-> NoExpiration, sig |-> "none"]

\* jwtenc: payload {"_": content}, plus "exp" when an expiration is given;
\* jwt.encode turns a datetime "exp" into a timestamp and json-serialises
\* the payload, which raises TypeError on a timedelta
jwtenc(content, expiration) ==
    IF ExpirationGiven(expiration) /\ expiration.kind = "timedelta"
    THEN [raised |-> "TypeError", token |-> NoToken]
    ELSE [raised |-> "",
          token |-> [content |-> content,
                     exp |-> IF ExpirationGiven(expiration) THEN expiration
                             ELSE NoExpiration,
                     sig |-> "server"]]

\* jwtdec at time now: the content of a token signed with the server secret
\* and not expired, None on every failure (jwt.decode's exceptions are
\* caught; an "exp" that is no number is one of them)
jwtdec(token, now) ==
    IF token.sig # "server" THEN [ok |-> FALSE, content |-> EmptyDict]
    ELSE IF token.exp.kind = "dict" THEN [ok |-> FALSE, content |-> EmptyDict]
    ELSE IF token.exp.kind = "datetime" /\ token.exp.n <= now
    THEN [ok |-> FALSE, content |-> EmptyDict]
    ELSE [ok |-> TRUE, content |-> token.content]

\* what a holder of the token reads from it without the key: jwt.encode
\* with HS256 signs the payload and does not encrypt it, the token carries
\* the payload as base64url of its JSON
Unverified(token) == token.content

----------------------------------------------------------------------------
(* coglex/services/auth/utils.py *)

\* {"_key": _key, **query}
KeyFilter(_key, query) == Merge("_key" :> _key, query)

\* _signup as it would be with the existence check of line 46 left out
_signup_unchecked(coll, n, salt, _key, _password, document) ==
    LET hashed == IF Truthy(_password) THEN phash(_password, salt) ELSE _password
        record == Merge(("_key" :> _key) @@ ("_password" :> hashed), document)
    IN  [out |-> "id", ret |-> hexgen(n),
         coll |-> _insert(coll, record, n), salted |-> Truthy(_password)]

\* line 46 of _signup: a record with the key exists
_signup_check(coll, _key) == _find(coll, "_key" :> _key).kind # "none"

\* lines 50-54 as they would be were the insert refused when the key is
\* already stored (an insert under a unique index on _key)
_signup_write_unique(coll, n, salt, _key, _password, document) ==
    IF _find(coll, "_key" :> _key).kind # "none"
    THEN [out |-> "None", ret |-> None, coll |-> coll, salted |-> Truthy(_password)]
    ELSE _signup_unchecked(coll, n, salt, _key, _password, document)

\* lines 50-54 of _signup: the password is hashed when truthy and
\* {"_key", "_password", **document} is inserted
_signup_write(coll, n, salt, _key, _password, document) ==
    LET hashed == IF Truthy(_password) THEN phash(_password, salt) ELSE _password
        record == Merge(("_key" :> _key) @@ ("_password" :> hashed), document)
    IN  [out |-> "id", ret |-> hexgen(n),
         coll |-> _insert(coll, record, n), salted |-> Truthy(_password)]

\* _signup: None when a record with the key exists; else the password is
\* hashed when truthy and {"_key", "_password", **document} is inserted
_signup(coll, n, salt, _key, _password, document) ==
    IF _signup_check(coll, _key)
    THEN [out |-> "None", ret |-> None, coll |-> coll, salted |-> FALSE]
    ELSE _signup_write(coll, n, salt, _key, _password, document)

\* _signin: None when no record or several match, or when the supplied
\* password does not verify; the password is checked only when it is truthy;
\* then the token is encoded, stored in the session and returned.  An
\* exception of pcheck or jwtenc is re-raised.
_signin(coll, _key, _password, query) ==
    LET authentication == _find(coll, KeyFilter(_key, query))
        stored == Get(authentication.one, "_password")
        check == IF Truthy(_password) THEN pcheck(_password, stored) ELSE "skipped"
        enc == jwtenc(Merge(("_key" :> _key) @@ ("_password" :> stored), query),
                      SERVER_SESSION_LIFETIME)
    IN  IF authentication.kind = "none" THEN [out |-> "None", token |-> NoToken]
        ELSE IF authentication.kind = "list" THEN [out |-> "None", token |-> NoToken]
        ELSE IF check \in {"AttributeError", "ValueError"}
        THEN [out |-> check, token |-> NoToken]
        ELSE IF check = "False" THEN [out |-> "None", token |-> NoToken]
        ELSE IF enc.raised # "" THEN [out |-> enc.raised, token |-> NoToken]
        ELSE [out |-> "token", token |-> enc.token]

\* _retrieve: the record when exactly one matches, else None
_retrieve(coll, _key, query) ==
    LET authentication == _find(coll, KeyFilter(_key, query))
    IN  IF authentication.kind = "none" \/ authentication.kind = "list"
        THEN [out |-> "None", doc |-> EmptyDict]
        ELSE [out |-> "doc", doc |-> authentication.one]

\* the update document _refresh builds: a truthy "_password" under "$set" is
\* replaced by its hash, every other operation is passed through
Construction(document, salt) ==
    [operation \in DOMAIN document |->
        IF operation = "$set" /\ Truthy(Get(document[operation], "_password"))
        THEN Merge(document[operation],
                   "_password" :> phash(document[operation]["_password"], salt))
        ELSE document[operation]]

HashesPassword(document) ==
    "$set" \in DOMAIN document /\ Truthy(Get(document["$set"], "_password"))

\* line 155 of _refresh: no record matches _key plus query
_refresh_check(coll, _key, query) == _find(coll, KeyFilter(_key, query)).kind = "none"

\* lines 158-172 of _refresh: the constructed update is patched under the
\* filter {"_key": _key}
_refresh_write(coll, salt, _key, document) ==
    LET p == _patch(coll, Construction(document, salt), "_key" :> _key)
    IN  [out |-> IF p.matched THEN "count" ELSE "None",
         count |-> p.count, coll |-> p.coll,
         salted |-> HashesPassword(document)]

\* _refresh: None when nothing matches _key plus query; else the constructed
\* update is patched under the filter {"_key": _key}
_refresh(coll, salt, _key, document, query) ==
    IF _refresh_check(coll, _key, query)
    THEN [out |-> "None", count |-> 0, coll |-> coll, salted |-> FALSE]
    ELSE _refresh_write(coll, salt, _key, document)

----------------------------------------------------------------------------
(* coglex/__init__.py *)

\* a token the client made up: not signed with the server secret
Forged ==
    [content |-> ("_key" :> Str("k1")) @@ ("_password" :> None),
     exp |-> NoExpiration, sig |-> "forged"]

\* the Authorization header of a request: absent, or a bearer token
HeaderTokens == {NoToken, Forged}

\* a decoded content that is a scalar (a str, None, ...) and no dict
IsScalar(x) == DOMAIN x = {"t", "v", "s"}

\* the wrapper of `authenticated`: the header's token, else the session's;
\* 401 when there is none, when it does not decode, when its content or its
\* _key is falsy or when _retrieve finds no single record for _key plus the
\* rest of the content; content.pop("_key") raises AttributeError on a str
\* and KeyError on a dict without the key
authenticated(coll, sessionToken, header, now) ==
    LET token == IF header # NoToken THEN header ELSE sessionToken
        content == jwtdec(token, now).content
        rest == [f \in (DOMAIN content) \ {"_key"} |-> content[f]]
    IN  IF token = NoToken THEN "401"
        ELSE IF ~jwtdec(token, now).ok THEN "401"
        ELSE IF IsScalar(content)
        THEN (IF Truthy(content) THEN "AttributeError" ELSE "401")
        ELSE IF content = EmptyDict THEN "401"
        ELSE IF "_key" \notin DOMAIN content THEN "KeyError"
        ELSE IF ~Truthy(content["_key"]) THEN "401"
        ELSE IF _retrieve(coll, content["_key"], rest).out = "None" THEN "401"
        ELSE "handler"

\* the content of the state token _oauth encodes
StateContent(provider, redirect_uri, nonce) ==
    ("provider" :> provider) @@ ("redirect_uri" :> redirect_uri)
        @@ ("nonce" :> nonce)

\* tokens signed with the server secret: the one _passgen makes of a
\* passcode, the state token of _oauth, and session tokens (the content
\* _signin encodes) that expire at time 0 or never
PasscodeToken == jwtenc(Code(<<1>>), NoExpiration).token
StateToken ==
    jwtenc(StateContent(Str("google"), Str("https://app/callback"), Str("nonce1")),
           NoExpiration).token
SessionToken(k, expiration) ==
    jwtenc(("_key" :> Str(k)) @@ ("_password" :> None), expiration).token
\* what a client may present in the Authorization header
PresentedTokens ==
    HeaderTokens \cup {PasscodeToken, StateToken, SessionToken("k1", Datetime(0)),
                       SessionToken("k1", NoExpiration)}

\* protected: the handler runs when the X-API-Key header (None when absent)
\* equals the secret, else 401
protected(key, header) == IF header = key THEN "handler" ELSE "401"

----------------------------------------------------------------------------
(* coglex/services/auth/utils.py and routes.py: one-time passcodes *)

\* the outcomes of secrets.randbelow(10), bounded
Digits == 0..MaxDigit
\* the draws of one _passgen call: range(length) raises on a str before any
\* digit is drawn
Draws(length) ==
    IF length.t = "int" THEN [1..length.s -> Digits] ELSE {<< >>}

\* _passgen: a passcode of `length` random digits and the token jwtenc makes
\* of it; nothing is looked up and nothing is stored.  range(length) raises
\* TypeError when length is no int, and jwtenc's exception is re-raised
_passgen(length, expiry, digits) ==
    LET passcode == Code(digits)
        enc == jwtenc(passcode, expiry)
    IN  IF length.t # "int"
        THEN [raised |-> "TypeError", passcode |-> None, token |-> NoToken]
        ELSE IF enc.raised # ""
        THEN [raised |-> enc.raised, passcode |-> None, token |-> NoToken]
        ELSE [raised |-> "", passcode |-> passcode, token |-> enc.token]

\* _passver: passcode == jwtdec(token), where jwtdec returns None for a
\* token that does not decode
_passver(passcode, token, now) ==
    LET dec == jwtdec(token, now)
        decoded == IF dec.ok THEN dec.content ELSE None
    IN  passcode = decoded

\* the parameters _passver declares
PassverParameters == <<"passcode", "token">>

\* the handler of GET verification/<_key>: _passgen(_key, query or None),
\* 500 on an exception, 404 on a falsy result (a tuple of two is truthy)
generation(_key, query, digits) ==
    LET req == _passgen(_key, IF query # EmptyDict THEN DictExpiration
                              ELSE NoExpiration, digits)
    IN  IF req.raised # "" THEN [out |-> "500", req |-> req]
        ELSE [out |-> "200", req |-> req]

\* the handler of GET verification/<_key>/<passcode>:
\* _passver(_key, passcode, query or None), three arguments for two
\* parameters (TypeError); 500 on an exception, 400 on False
verification(_key, passcode, query, now) ==
    LET arguments == <<_key, passcode, query>>
    IN  IF Len(arguments) # Len(PassverParameters) THEN "500"
        ELSE IF ~_passver(arguments[1], arguments[2], now) THEN "400"
        ELSE "200"

\* _signout on the session entry of the collection: False when there is no
\* token; else the entry is removed and the answer is True
_signout(entry) ==
    IF entry = NoToken THEN [out |-> "False", entry |-> entry]
    ELSE [out |-> "True", entry |-> NoToken]

----------------------------------------------------------------------------
(* coglex/services/auth/utils.py: OAuth *)

\* config.OAUTH_CONFIG: the configured providers
OAUTH_CONFIG == {Str("google")}

\* _oauth: None for a provider that is not configured; else the
\* authorization URL, which carries the state token
_oauth(provider, redirect_uri, nonce) ==
    IF provider \notin OAUTH_CONFIG THEN [out |-> "None", state |-> NoToken]
    ELSE [out |-> "url",
          state |-> jwtenc(StateContent(provider, redirect_uri, nonce),
                           NoExpiration).token]

\* _ocall at time now.  The provider answers the token request with a JSON
\* object that carries an access_token ("access_token") or none ("error"),
\* or the request raises ("raise"); it answers the userinfo request with
\* the user ("user"), an empty object ("empty"), or the request raises.
\* sent lists the requests made.  state.get raises AttributeError when the
\* decoded state is a str
_ocall(code, state, tokenResponse, userResponse, now) ==
    LET dec == jwtdec(state, now)
        content == dec.content
        none == [out |-> "None", sent |-> << >>]
    IN  IF ~dec.ok THEN none
        ELSE IF IsScalar(content)
        THEN (IF Truthy(content) THEN [out |-> "AttributeError", sent |-> << >>]
              ELSE none)
        ELSE IF \/ content = EmptyDict
                \/ ~Truthy(Get(content, "provider"))
                \/ ~Truthy(Get(content, "redirect_uri"))
                \/ ~Truthy(Get(content, "nonce")) THEN none
        ELSE IF content["provider"] \notin OAUTH_CONFIG THEN none
        ELSE IF tokenResponse = "raise"
        THEN [out |-> "RequestException", sent |-> <<"token">>]
        ELSE IF tokenResponse = "error"
        THEN [out |-> "None", sent |-> <<"token">>]
        ELSE IF userResponse = "raise"
        THEN [out |-> "RequestException", sent |-> <<"token", "userinfo">>]
        ELSE IF userResponse = "empty"
        THEN [out |-> "None", sent |-> <<"token", "userinfo">>]
        ELSE [out |-> "user", sent |-> <<"token", "userinfo">>]

----------------------------------------------------------------------------
(* coglex/services/auth/routes.py and coglex/services/storage/routes.py:
   the handlers.  json is the request body, a dict; a field the body lacks
   reads as None (request.json.get) *)

\* `not x` of a body field: None and the empty dict are falsy
Falsy(x) == IF IsScalar(x) THEN ~Truthy(x) ELSE x = EmptyDict

\* POST /service/auth/v1/signup: 400 without a _key; _signup(_key, document)
\* hands the document over as the second positional parameter, _password:
\* a non-empty dict is truthy and phash calls its encode, AttributeError
\* (500); a document of None or {} is stored as the _password; 400 when
\* _signup returns None; else 200 with the id
signup(coll, n, salt, json) ==
    LET _key == Get(json, "_key")
        document == Get(json, "document")
        unchanged == [ret |-> None, coll |-> coll, salted |-> FALSE]
        req == _signup(coll, n, salt, _key,
                       IF IsScalar(document) THEN document
                       ELSE EmptyValue, EmptyDict)
    IN  IF Falsy(_key) THEN [out |-> "400"] @@ unchanged
        ELSE IF _signup_check(coll, _key) THEN [out |-> "400"] @@ unchanged
        ELSE IF ~IsScalar(document) /\ document # EmptyDict
        THEN [out |-> "500"] @@ unchanged
        ELSE [out |-> "200", ret |-> req.ret, coll |-> req.coll, salted |-> req.salted]

\* GET /service/auth/v1/<_key>: query is the parsed `query` parameter, None
\* when the request has none; _retrieve(_key, query), where
\* {"_key": _key, **query} raises TypeError on a query of None (500); 404
\* when _retrieve returns None; else 200 with the document
retrieve(coll, _key, query) ==
    LET req == _retrieve(coll, _key, query)
    IN  IF IsScalar(query) THEN [out |-> "500", doc |-> EmptyDict]
        ELSE IF req.out = "None" THEN [out |-> "404", doc |-> EmptyDict]
        ELSE [out |-> "200", doc |-> req.doc]

\* PATCH /service/auth/v1/<_key>: 400 without a document; _refresh(_key,
\* document, query), where {"_key": _key, **query} raises TypeError on a
\* query of None (500); 404 when the result is falsy, None or 0; else 200
refresh(coll, salt, _key, json) ==
    LET document == Get(json, "document")
        query == Get(json, "query")
        req == _refresh(coll, salt, _key, document, query)
        unchanged == [count |-> 0, coll |-> coll, salted |-> FALSE]
    IN  IF Falsy(document) THEN [out |-> "400"] @@ unchanged
        ELSE IF IsScalar(query) THEN [out |-> "500"] @@ unchanged
        ELSE [out |-> IF req.out = "None" \/ req.count = 0 THEN "404" ELSE "200",
              count |-> req.count, coll |-> req.coll, salted |-> req.salted]

\* PATCH /service/storage/v1/<collection>/<key>: 400 without a document;
\* _patch(collection, document, {"_id": key}); 404 on a falsy result
patch_one(coll, key, json) ==
    LET document == Get(json, "document")
        req == _patch(coll, document, "_id" :> key)
    IN  IF Falsy(document) THEN [out |-> "400", count |-> 0, coll |-> coll]
        ELSE [out |-> IF ~req.matched \/ req.count = 0 THEN "404" ELSE "200",
              count |-> req.count, coll |-> req.coll]

\* PATCH /service/storage/v1/<collection>: 400 without a document;
\* _patch(collection, document, query), where update_many raises TypeError
\* on a filter of None (500); 404 on a falsy result
patch_many(coll, json) ==
    LET document == Get(json, "document")
        query == Get(json, "query")
        req == _patch(coll, document, query)
    IN  IF Falsy(document) THEN [out |-> "400", count |-> 0, coll |-> coll]
        ELSE IF IsScalar(query) THEN [out |-> "500", count |-> 0, coll |-> coll]
        ELSE [out |-> IF ~req.matched \/ req.count = 0 THEN "404" ELSE "200",
              count |-> req.count, coll |-> req.coll]

----------------------------------------------------------------------------
(* coglex/services/archive/utils.py and routes.py.  coll is the archive
   collection of metadata records, files is the upload folder: the content
   of every path that exists *)

MAX_CONTENT_LENGTH == 16777216

\* a file of a request: its filename as path components, its content, its
\* size
NoFile == [filename |-> << >>, content |-> "", size |-> 0]

\* secure_filename turns the separators into "_" and strips leading dots
\* and "_", which leaves the last component of a filename whose other
\* components are all ".."
secure_filename(filename) == Str(filename[Len(filename)])

\* os.path.join(config.APP_UPLOAD, name)
Path(name) == [t |-> "path", v |-> name.v, s |-> 0]

\* _delete: delete_many(query); the count of records deleted, None when it
\* is 0
_delete(coll, query) ==
    LET kept == SelectSeq(coll, LAMBDA d : ~Matches(d, query))
    IN  [out |-> IF Len(kept) < Len(coll) THEN "count" ELSE "None",
         count |-> Len(coll) - Len(kept), coll |-> kept]

\* _upload: None for a file larger than MAX_CONTENT_LENGTH; else the file is
\* saved at the path made of its secured filename, replacing what was
\* there, and the metadata record is inserted; the id is returned
_upload(coll, files, n, file) ==
    LET name == secure_filename(file.filename)
        path == Path(name)
        metadata == ("_filename" :> name) @@ ("_filepath" :> path)
                        @@ ("_filesize" :> Number(file.size))
    IN  IF file.size > MAX_CONTENT_LENGTH
        THEN [out |-> "None", ret |-> None, coll |-> coll, files |-> files]
        ELSE [out |-> "id", ret |-> hexgen(n), coll |-> _insert(coll, metadata, n),
              files |-> (path :> file.content) @@ files]

\* _download: (None, None) when no record has the id, when the record has
\* no _filepath or when no file exists there; else (filepath, filename).
\* The result is the pair <<first, second>>
_download(coll, files, reference) ==
    LET metadata == _find(coll, "_id" :> reference)
        filepath == Get(metadata.one, "_filepath")
        filename == Get(metadata.one, "_filename")
    IN  IF metadata.kind = "none" THEN [raised |-> "", pair |-> <<None, None>>]
        ELSE IF metadata.kind = "list"
        THEN [raised |-> "AttributeError", pair |-> <<None, None>>]
        ELSE IF ~Truthy(filepath) \/ filepath \notin DOMAIN files
        THEN [raised |-> "", pair |-> <<None, None>>]
        ELSE [raised |-> "", pair |-> <<filepath, filename>>]

\* _fdelete: False when no record has the id; else the file at the record's
\* _filepath is removed when it exists and the record is deleted
_fdelete(coll, files, reference) ==
    LET metadata == _find(coll, "_id" :> reference)
        filepath == Get(metadata.one, "_filepath")
        deleted == _delete(coll, "_id" :> reference)
    IN  IF metadata.kind = "none"
        THEN [out |-> "False", coll |-> coll, files |-> files]
        ELSE IF metadata.kind = "list"
        THEN [out |-> "AttributeError", coll |-> coll, files |-> files]
        ELSE [out |-> deleted.out, coll |-> deleted.coll,
              files |-> IF Truthy(filepath) /\ filepath \in DOMAIN files
                        THEN [q \in (DOMAIN files) \ {filepath} |-> files[q]]
                        ELSE files]

\* GET /service/archive/v1/<reference>: `filename, filepath = _download(...)`
\* binds the first element of the pair to filename and the second to
\* filepath; 404 when filepath is falsy; else send_file(filepath,
\* download_name=filename), which raises FileNotFoundError (500) when no
\* file is there
download(coll, files, reference) ==
    LET r == _download(coll, files, reference)
        filename == r.pair[1]
        filepath == r.pair[2]
        nothing == [path |-> None, name |-> None, body |-> ""]
    IN  IF r.raised # "" THEN [out |-> "500"] @@ nothing
        ELSE IF ~Truthy(filepath) THEN [out |-> "404"] @@ nothing
        ELSE IF filepath \notin DOMAIN files THEN [out |-> "500"] @@ nothing
        ELSE [out |-> "200", path |-> filepath, name |-> filename,
              body |-> files[filepath]]

----------------------------------------------------------------------------
(* The state machine: one action per call *)

\* the last call: its name, arguments and outcome.  out is the kind of the
\* return value ("None", "id", "token", "doc", "count", ...) or the name of
\* the exception raised; ret is the returned id, tok the returned token
NoCall ==
    [op |-> "", coll |-> MONGODB_AUTH_COLLECTION, key |-> None, pw |-> None, doc |-> EmptyDict,
     query |-> EmptyDict, out |-> "", ret |-> None, tok |-> NoToken,
     exp |-> NoExpiration, t0 |-> 0, now |-> 0, header |-> None, ch |-> 0,
     sent |-> << >>, resp |-> << >>, file |-> NoFile, path |-> None, name |-> None,
     body |-> ""]

\* the requests served at the same time
Workers == {1, 2}

\* a call in flight on a worker: idle, checked (its existence check is done,
\* its write is not) or done; overlap tells that the write happened while
\* another worker's call on the same key stood between check and write
Idle ==
    [stage |-> "idle", op |-> "", coll |-> MONGODB_AUTH_COLLECTION, key |-> None,
     pw |-> None, doc |-> EmptyDict, query |-> EmptyDict, out |-> "",
     ret |-> None, overlap |-> FALSE]

\* config.SERVER_SECRET when the environment sets it
SERVER_SECRET == Str("secret")

\* the state after construction, the configuration apart
Constructed ==
    /\ store = [c \in Collections |-> << >>]
    /\ session = [c \in Collections |-> NoToken]
    /\ nextId = 1
    /\ nextSalt = 1
    /\ last = NoCall
    /\ calls = [w \in Workers |-> Idle]
    /\ issued = << >>
    /\ archive = << >>
    /\ uploads = << >>
    /\ held = {}

Init == Constructed /\ secret = SERVER_SECRET

\* SERVER_SECRET is os.environ.get("SERVER_SECRET"): None when unset
InitConfig == Constructed /\ secret \in {None, SERVER_SECRET}

Signup(c, k, pw, d) ==
    LET r == _signup(store[c], nextId, nextSalt, Str(k), pw, d)
    IN  /\ Len(r.coll) <= MaxDocs
        /\ r.salted => nextSalt <= MaxSalt
        /\ store' = [store EXCEPT ![c] = r.coll]
        /\ nextId' = IF r.out = "id" THEN nextId + 1 ELSE nextId
        /\ nextSalt' = IF r.salted THEN nextSalt + 1 ELSE nextSalt
        /\ last' = [NoCall EXCEPT !.op = "_signup", !.coll = c, !.key = Str(k), !.pw = pw,
                                  !.doc = d, !.out = r.out, !.ret = r.ret]
        /\ UNCHANGED <<archive, uploads, held, session, secret, calls, issued>>

Signin(c, k, pw, q) ==
    LET r == _signin(store[c], Str(k), pw, q)
    IN  /\ session' = IF r.out = "token" THEN [session EXCEPT ![c] = r.token]
                      ELSE session
        /\ last' = [NoCall EXCEPT !.op = "_signin", !.coll = c, !.key = Str(k), !.pw = pw,
                                  !.query = q, !.out = r.out, !.tok = r.token]
        /\ UNCHANGED <<archive, uploads, held, store, nextId, nextSalt, secret, calls, issued>>

Retrieve(c, k, q) ==
    LET r == _retrieve(store[c], Str(k), q)
    IN  /\ last' = [NoCall EXCEPT !.op = "_retrieve", !.coll = c, !.key = Str(k),
                                  !.query = q, !.out = r.out, !.doc = r.doc]
        /\ UNCHANGED <<archive, uploads, held, store, session, nextId, nextSalt, secret, calls, issued>>

Refresh(c, k, u, q) ==
    LET r == _refresh(store[c], nextSalt, Str(k), u, q)
    IN  /\ r.salted => nextSalt <= MaxSalt
        /\ store' = [store EXCEPT ![c] = r.coll]
        /\ nextSalt' = IF r.salted THEN nextSalt + 1 ELSE nextSalt
        /\ last' = [NoCall EXCEPT !.op = "_refresh", !.coll = c, !.key = Str(k), !.doc = u,
                                  !.query = q, !.out = r.out]
        /\ UNCHANGED <<archive, uploads, held, session, nextId, secret, calls, issued>>

Request(c, header, now) ==
    /\ last' = [NoCall EXCEPT !.op = "authenticated", !.coll = c, !.tok = header, !.now = now,
                              !.out = authenticated(store[c], session[c], header, now)]
    /\ UNCHANGED <<archive, uploads, held, store, session, nextId, nextSalt, secret, calls, issued>>

\* the content of a session token, as _signin builds it
Contents == {("_key" :> Str(k)) @@ ("_password" :> None) : k \in Keys}

\* jwtenc at time t0 with a time-to-live of ttl, then jwtdec at time now.
\* how = "timedelta": the time-to-live itself is passed, as _signin and
\* _passgen pass it; "datetime": the instant t0 + ttl; "none": no expiration
JwtRoundTrip(content, how, t0, ttl, now) ==
    LET expiration == IF how = "timedelta" THEN Timedelta(ttl)
                      ELSE IF how = "datetime" THEN Datetime(t0 + ttl)
                      ELSE NoExpiration
        enc == jwtenc(content, expiration)
        dec == jwtdec(enc.token, now)
    IN  /\ t0 <= now
        /\ last' = [NoCall EXCEPT !.op = "jwt", !.doc = content, !.exp = expiration,
                                  !.t0 = t0, !.now = now, !.tok = enc.token,
                                  !.out = IF enc.raised # "" THEN enc.raised
                                          ELSE IF dec.ok THEN "content" ELSE "None",
                                  !.query = dec.content]
        /\ UNCHANGED <<archive, uploads, held, store, session, nextId, nextSalt, secret, calls, issued>>

----------------------------------------------------------------------------
(* _signup and _refresh step by step: the check and the write of a call are
   two database round trips, and the calls of other workers come between *)

\* the other worker stands between the check and the write of the same call
Overlaps(w, op, c, k) ==
    \E v \in Workers \ {w} :
        /\ calls[v].stage = "checked" /\ calls[v].op = op
        /\ calls[v].coll = c /\ calls[v].key = k

\* _signup line 46: the existence check; the call returns None at once when
\* the key is stored
SignupCheck(w, c, k, pw, d) ==
    /\ calls[w].stage # "checked"
    /\ calls' = [calls EXCEPT ![w] =
                    [Idle EXCEPT !.op = "_signup", !.coll = c, !.key = Str(k),
                                 !.pw = pw, !.doc = d,
                                 !.stage = IF _signup_check(store[c], Str(k))
                                           THEN "done" ELSE "checked",
                                 !.out = IF _signup_check(store[c], Str(k))
                                         THEN "None" ELSE ""]]
    /\ UNCHANGED <<archive, uploads, held, store, session, nextId, nextSalt, last, secret, issued>>

\* _signup lines 50-54: hash and insert
SignupWrite(w) ==
    LET call == calls[w]
        r == _signup_write(store[call.coll], nextId, nextSalt, call.key,
                           call.pw, call.doc)
    IN  /\ call.stage = "checked" /\ call.op = "_signup"
        /\ Len(r.coll) <= MaxDocs
        /\ r.salted => nextSalt <= MaxSalt
        /\ store' = [store EXCEPT ![call.coll] = r.coll]
        /\ nextId' = IF r.out = "id" THEN nextId + 1 ELSE nextId
        /\ nextSalt' = IF r.salted THEN nextSalt + 1 ELSE nextSalt
        /\ calls' = [calls EXCEPT ![w] =
                        [call EXCEPT !.stage = "done", !.out = r.out, !.ret = r.ret,
                                     !.overlap = Overlaps(w, "_signup", call.coll, call.key)]]
        /\ UNCHANGED <<archive, uploads, held, session, last, secret, issued>>

\* _refresh line 155: the existence check under _key plus query
RefreshCheck(w, c, k, u, q) ==
    /\ calls[w].stage # "checked"
    /\ calls' = [calls EXCEPT ![w] =
                    [Idle EXCEPT !.op = "_refresh", !.coll = c, !.key = Str(k),
                                 !.doc = u, !.query = q,
                                 !.stage = IF _refresh_check(store[c], Str(k), q)
                                           THEN "done" ELSE "checked",
                                 !.out = IF _refresh_check(store[c], Str(k), q)
                                         THEN "None" ELSE ""]]
    /\ UNCHANGED <<archive, uploads, held, store, session, nextId, nextSalt, last, secret, issued>>

\* _refresh lines 158-172: construct the update and patch
RefreshWrite(w) ==
    LET call == calls[w]
        r == _refresh_write(store[call.coll], nextSalt, call.key, call.doc)
    IN  /\ call.stage = "checked" /\ call.op = "_refresh"
        /\ r.salted => nextSalt <= MaxSalt
        /\ store' = [store EXCEPT ![call.coll] = r.coll]
        /\ nextSalt' = IF r.salted THEN nextSalt + 1 ELSE nextSalt
        /\ calls' = [calls EXCEPT ![w] =
                        [call EXCEPT !.stage = "done", !.out = r.out,
                                     !.overlap = Overlaps(w, "_refresh", call.coll, call.key)]]
        /\ UNCHANGED <<archive, uploads, held, session, nextId, last, secret, issued>>

\* the arguments of the interleaved calls
RaceDocs == {EmptyDict, "active" :> True}
RaceUpdates == {"$set" :> ("active" :> True), "$unset" :> ("active" :> Str(""))}

NextRace ==
    \/ \E w \in Workers, c \in Collections, k \in Keys, d \in RaceDocs :
          SignupCheck(w, c, k, None, d)
    \/ \E w \in Workers : SignupWrite(w)
    \/ \E w \in Workers, c \in Collections, k \in Keys, u \in RaceUpdates,
          q \in Queries : RefreshCheck(w, c, k, u, q)
    \/ \E w \in Workers : RefreshWrite(w)

SpecRace == Init /\ [][NextRace]_vars

----------------------------------------------------------------------------
(* The sequential callers *)

Next ==
    \/ \E c \in Collections, k \in Keys, pw \in SignupPasswords, d \in SignupDocs :
          Signup(c, k, pw, d)
    \/ \E c \in Collections, k \in Keys, pw \in PasswordArgs, q \in Queries :
          Signin(c, k, pw, q)
    \/ \E c \in Collections, k \in Keys, q \in Queries : Retrieve(c, k, q)
    \/ \E c \in Collections, k \in Keys, u \in UpdateSpecs, q \in Queries :
          Refresh(c, k, u, q)
    \/ \E c \in Collections, h \in HeaderTokens, now \in 0..MaxTime :
          Request(c, h, now)

Spec == Init /\ [][Next]_vars

\* requests that present every kind of token, and the signups that make
\* the users
NextTokens ==
    \/ \E c \in Collections, k \in Keys, d \in RaceDocs : Signup(c, k, None, d)
    \/ \E c \in Collections, h \in PresentedTokens, now \in 0..MaxTime :
          Request(c, h, now)

SpecTokens == Init /\ [][NextTokens]_vars

\* the bodies of the PATCH requests: no document; a document; a document
\* and a query
PatchBodies ==
    {EmptyDict} \cup {"document" :> u : u \in RaceUpdates}
        \cup {("document" :> u) @@ ("query" :> q) : u \in RaceUpdates, q \in Queries}

\* the filter a PATCH handler hands to the store
PatchFilter(op, key, json) ==
    IF op = "refresh" THEN KeyFilter(key, Get(json, "query"))
    ELSE IF op = "patch_one" THEN "_id" :> key
    ELSE Get(json, "query")

\* a PATCH request with X-API-Key h: the refresh handler of the auth routes
RefreshRoute(k, json, h) ==
    LET c == MONGODB_AUTH_COLLECTION
        ran == protected(secret, h) = "handler"
        r == refresh(store[c], nextSalt, Str(k), json)
    IN  /\ (ran /\ r.salted) => nextSalt <= MaxSalt
        /\ store' = IF ran THEN [store EXCEPT ![c] = r.coll] ELSE store
        /\ nextSalt' = IF ran /\ r.salted THEN nextSalt + 1 ELSE nextSalt
        /\ last' = [NoCall EXCEPT !.op = "refresh", !.coll = c, !.key = Str(k),
                                  !.doc = json, !.header = h,
                                  !.out = IF ran THEN r.out ELSE "401",
                                  !.ret = Number(IF ran THEN r.count ELSE 0)]
        /\ UNCHANGED <<archive, uploads, held, session, nextId, secret, calls, issued>>

\* the patch_one and patch_many handlers of the storage routes
PatchRoute(op, c, key, json, h) ==
    LET ran == protected(secret, h) = "handler"
        r == IF op = "patch_one" THEN patch_one(store[c], key, json)
             ELSE patch_many(store[c], json)
    IN  /\ store' = IF ran THEN [store EXCEPT ![c] = r.coll] ELSE store
        /\ last' = [NoCall EXCEPT !.op = op, !.coll = c, !.key = key,
                                  !.doc = json, !.header = h,
                                  !.out = IF ran THEN r.out ELSE "401",
                                  !.ret = Number(IF ran THEN r.count ELSE 0)]
        /\ UNCHANGED <<archive, uploads, held, session, nextId, nextSalt, secret, calls, issued>>

\* the bodies of the signup requests: with or without _key and document
SignupBodies ==
    {EmptyDict, "document" :> ("active" :> True)}
        \cup {"_key" :> Str(k) : k \in Keys}
        \cup {("_key" :> Str(k)) @@ ("document" :> d) :
                 k \in Keys, d \in {"active" :> True, "name" :> Str("n")}}

\* the signup handler behind `protected`
SignupRoute(json, h) ==
    LET c == MONGODB_AUTH_COLLECTION
        ran == protected(secret, h) = "handler"
        r == signup(store[c], nextId, nextSalt, json)
    IN  /\ ran => Len(r.coll) <= MaxDocs
        /\ (ran /\ r.salted) => nextSalt <= MaxSalt
        /\ store' = IF ran THEN [store EXCEPT ![c] = r.coll] ELSE store
        /\ nextId' = IF ran /\ r.out = "200" THEN nextId + 1 ELSE nextId
        /\ nextSalt' = IF ran /\ r.salted THEN nextSalt + 1 ELSE nextSalt
        /\ last' = [NoCall EXCEPT !.op = "signup", !.coll = c, !.doc = json,
                                  !.key = Get(json, "_key"), !.header = h,
                                  !.out = IF ran THEN r.out ELSE "401",
                                  !.ret = IF ran THEN r.ret ELSE None]
        /\ UNCHANGED <<archive, uploads, held, session, secret, calls, issued>>

\* the retrieve handler behind `protected`
RetrieveRoute(k, query, h) ==
    LET c == MONGODB_AUTH_COLLECTION
        ran == protected(secret, h) = "handler"
        r == retrieve(store[c], Str(k), query)
    IN  /\ last' = [NoCall EXCEPT !.op = "retrieve", !.coll = c, !.key = Str(k),
                                  !.pw = query, !.header = h,
                                  !.out = IF ran THEN r.out ELSE "401",
                                  !.doc = IF ran THEN r.doc ELSE EmptyDict]
        /\ UNCHANGED <<archive, uploads, held, store, session, nextId, nextSalt, secret, calls, issued>>

\* the signup and retrieve handlers, and the _signup calls that make
\* records with more fields
NextHandlers ==
    \/ \E c \in Collections, k \in Keys, d \in RaceDocs : Signup(c, k, Str("p1"), d)
    \/ \E json \in SignupBodies, h \in {SERVER_SECRET, Str("wrong")} :
          SignupRoute(json, h)
    \/ \E k \in Keys, h \in {SERVER_SECRET, Str("wrong")} :
          \/ RetrieveRoute(k, None, h)
          \/ \E q \in Queries : RetrieveRoute(k, q, h)

SpecHandlers == Init /\ [][NextHandlers]_vars

\* the PATCH handlers, and the signups that make the records
NextPatch ==
    \/ \E c \in Collections, k \in Keys, d \in RaceDocs : Signup(c, k, None, d)
    \/ \E k \in Keys, json \in PatchBodies, h \in {SERVER_SECRET, Str("wrong")} :
          RefreshRoute(k, json, h)
    \/ \E c \in Collections, n \in 1..MaxDocs, json \in PatchBodies,
          h \in {SERVER_SECRET, Str("wrong")} :
          PatchRoute("patch_one", c, Hex(n), json, h)
    \/ \E c \in Collections, json \in PatchBodies,
          h \in {SERVER_SECRET, Str("wrong")} :
          PatchRoute("patch_many", c, None, json, h)

SpecPatch == Init /\ [][NextPatch]_vars

\* the files uploaded: two names, one of them also with a leading "..",
\* two contents, a size within the limit and one beyond it
Files ==
    [filename : {<<"a.txt">>, <<"..", "a.txt">>, <<"b.txt">>},
     content : {"x", "y"}, size : {1, MAX_CONTENT_LENGTH + 1}]
References == {Hex(n) : n \in 1..MaxUploads}

\* held lists the ids _upload returned that were not passed to _fdelete
\* since, each with the content uploaded under it
Upload(file) ==
    LET r == _upload(archive, uploads, nextId, file)
    IN  /\ nextId <= MaxUploads
        /\ archive' = r.coll
        /\ uploads' = r.files
        /\ nextId' = IF r.out = "id" THEN nextId + 1 ELSE nextId
        /\ held' = IF r.out = "id" THEN held \cup {[id |-> r.ret, content |-> file.content]}
                   ELSE held
        /\ last' = [NoCall EXCEPT !.op = "_upload", !.file = file, !.out = r.out,
                                  !.ret = r.ret]
        /\ UNCHANGED <<store, session, nextSalt, secret, calls, issued>>

Fdelete(reference) ==
    LET r == _fdelete(archive, uploads, reference)
    IN  /\ archive' = r.coll
        /\ uploads' = r.files
        /\ held' = {h \in held : h.id # reference}
        /\ last' = [NoCall EXCEPT !.op = "_fdelete", !.key = reference, !.out = r.out]
        /\ UNCHANGED <<store, session, nextId, nextSalt, secret, calls, issued>>

Download(reference) ==
    LET r == _download(archive, uploads, reference)
    IN  /\ last' = [NoCall EXCEPT !.op = "_download", !.key = reference,
                                  !.out = IF r.raised # "" THEN r.raised
                                          ELSE IF r.pair[1] = None THEN "None" ELSE "pair",
                                  !.path = r.pair[1], !.name = r.pair[2]]
        /\ UNCHANGED <<store, session, nextId, nextSalt, secret, calls, issued,
                       archive, uploads, held>>

\* the download handler behind `protected`
DownloadRoute(reference, h) ==
    LET ran == protected(secret, h) = "handler"
        r == download(archive, uploads, reference)
    IN  /\ last' = [NoCall EXCEPT !.op = "download", !.key = reference, !.header = h,
                                  !.out = IF ran THEN r.out ELSE "401",
                                  !.path = IF ran THEN r.path ELSE None,
                                  !.name = IF ran THEN r.name ELSE None,
                                  !.body = IF ran THEN r.body ELSE ""]
        /\ UNCHANGED <<store, session, nextId, nextSalt, secret, calls, issued,
                       archive, uploads, held>>

NextArchive ==
    \/ \E file \in Files : Upload(file)
    \/ \E reference \in References : Fdelete(reference)
    \/ \E reference \in References : Download(reference)
    \/ \E reference \in References, h \in {SERVER_SECRET, Str("wrong")} :
          DownloadRoute(reference, h)

SpecArchive == Init /\ [][NextArchive]_vars

\* the lookups, and the signups that make the records
NextLookup ==
    \/ \E c \in Collections, k \in Keys, pw \in SignupPasswords, d \in SignupDocs :
          Signup(c, k, pw, d)
    \/ \E c \in Collections, k \in Keys, pw \in PasswordArgs, q \in Queries :
          Signin(c, k, pw, q)
    \/ \E c \in Collections, k \in Keys, q \in Queries : Retrieve(c, k, q)

SpecLookup == Init /\ [][NextLookup]_vars

Signout(c) ==
    LET r == _signout(session[c])
    IN  /\ session' = [session EXCEPT ![c] = r.entry]
        /\ last' = [NoCall EXCEPT !.op = "_signout", !.coll = c, !.out = r.out]
        /\ UNCHANGED <<archive, uploads, held, store, nextId, nextSalt, secret, calls, issued>>

\* sign-up, sign-in, sign-out and requests that present a token
NextSignout ==
    \/ \E c \in Collections, k \in Keys, pw \in SignupPasswords : Signup(c, k, pw, EmptyDict)
    \/ \E c \in Collections, k \in Keys, pw \in PasswordArgs : Signin(c, k, pw, EmptyDict)
    \/ \E c \in Collections : Signout(c)
    \/ \E c \in Collections, h \in HeaderTokens, now \in 0..MaxTime : Request(c, h, now)

SpecSignout == Init /\ [][NextSignout]_vars

\* the providers, callback URLs and nonces of the OAuth calls
Providers == {Str("google"), Str("github")}
RedirectUris == {Str("https://app/callback"), Str("https://evil/callback")}
Nonces == {Str("nonce1"), Str("nonce2")}
AuthorizationCodes == {Str("code1"), Str("code2")}

\* the state parameter of a callback: none, a forged one, the state tokens
\* _oauth made, state tokens for a provider that is not configured or
\* without a nonce, a passcode token and a session token
CallbackStates ==
    {NoToken, Forged, StateToken, PasscodeToken, SessionToken("k1", NoExpiration),
     jwtenc(StateContent(Str("github"), Str("https://app/callback"), Str("nonce1")),
            NoExpiration).token,
     jwtenc(StateContent(Str("google"), Str("https://app/callback"), Str("")),
            NoExpiration).token}

Oauth(provider, redirect_uri, nonce) ==
    LET r == _oauth(provider, redirect_uri, nonce)
    IN  /\ last' = [NoCall EXCEPT !.op = "_oauth", !.key = provider, !.pw = redirect_uri,
                                  !.out = r.out, !.tok = r.state]
        /\ UNCHANGED <<archive, uploads, held, store, session, nextId, nextSalt, secret, calls, issued>>

Ocall(code, state, tokenResponse, userResponse, now) ==
    LET r == _ocall(code, state, tokenResponse, userResponse, now)
    IN  /\ last' = [NoCall EXCEPT !.op = "_ocall", !.pw = code, !.tok = state,
                                  !.now = now, !.out = r.out, !.sent = r.sent,
                                  !.resp = <<tokenResponse, userResponse>>]
        /\ UNCHANGED <<archive, uploads, held, store, session, nextId, nextSalt, secret, calls, issued>>

NextOauth ==
    \/ \E p \in Providers, u \in RedirectUris, n \in Nonces : Oauth(p, u, n)
    \/ \E code \in AuthorizationCodes,
          state \in CallbackStates \cup {_oauth(p, u, n).state :
                                            p \in Providers, u \in RedirectUris, n \in Nonces},
          tr \in {"access_token", "error", "raise"},
          ur \in {"user", "empty", "raise"}, now \in 0..MaxTime :
          Ocall(code, state, tr, ur, now)

SpecOauth == Init /\ [][NextOauth]_vars

\* the calls that write the collection, alone
NextStore ==
    \/ \E c \in Collections, k \in Keys, pw \in SignupPasswords, d \in SignupDocs :
          Signup(c, k, pw, d)
    \/ \E c \in Collections, k \in Keys, u \in UpdateSpecs, q \in Queries :
          Refresh(c, k, u, q)

SpecStore == Init /\ [][NextStore]_vars

\* update specs that assign _password: under $set (a plaintext, the empty
\* string) and under $max
PasswordUpdates ==
    {"$set" :> ("_password" :> Str("p2")), "$set" :> ("_password" :> Str("")),
     "$max" :> ("_password" :> Str("p1"))}

\* signups, and the refreshes that assign _password
NextPassword ==
    \/ \E c \in Collections, k \in Keys, pw \in SignupPasswords :
          Signup(c, k, pw, EmptyDict)
    \/ \E c \in Collections, k \in Keys, u \in PasswordUpdates, q \in Queries :
          Refresh(c, k, u, q)

SpecPassword == Init /\ [][NextPassword]_vars

\* the token utilities alone: every round trip over the bounded inputs
NextJwt ==
    \E content \in Contents, how \in {"none", "timedelta", "datetime"},
       t0 \in 0..MaxTtl, ttl \in 0..MaxTtl, now \in 0..(2 * MaxTtl + 1) :
       JwtRoundTrip(content, how, t0, ttl, now)

SpecJwt == Init /\ [][NextJwt]_vars

----------------------------------------------------------------------------
(* One-time passcodes: the core calls and the two routes *)

\* every passcode of at most MaxLength digits
AllCodes == UNION {{Code(d) : d \in [1..n -> Digits]} : n \in 1..MaxLength}

\* the X-API-Key header of a request: absent, the secret, another string
ApiKeys == {None, SERVER_SECRET, Str("wrong")}

\* _passgen at time t0 with a time-to-live of ttl, passed as a timedelta, as
\* the datetime t0 + ttl, or not at all.  The caller keeps what is returned:
\* issued lists the challenges, each with the count of wrong verifications
Passgen(length, how, t0, ttl, digits) ==
    LET expiry == IF how = "timedelta" THEN Timedelta(ttl)
                  ELSE IF how = "datetime" THEN Datetime(t0 + ttl)
                  ELSE NoExpiration
        r == _passgen(length, expiry, digits)
    IN  /\ how = "none" => ttl = 0
        /\ r.raised = "" => Len(issued) < MaxChallenges
        /\ issued' = IF r.raised # "" THEN issued
                      ELSE Append(issued, [code |-> r.passcode, token |-> r.token,
                                           how |-> how, t0 |-> t0, ttl |-> ttl,
                                           wrong |-> 0])
        /\ last' = [NoCall EXCEPT !.op = "_passgen", !.pw = r.passcode, !.tok = r.token,
                                  !.exp = expiry, !.t0 = t0,
                                  !.out = IF r.raised # "" THEN r.raised ELSE "pair",
                                  !.ch = IF r.raised # "" THEN 0 ELSE Len(issued) + 1]
        /\ UNCHANGED <<archive, uploads, held, store, session, nextId, nextSalt, secret, calls>>

\* _passver at time now of a submitted passcode with the token of challenge
\* i as issued, with that token tampered, or with no token (i = 0: no
\* challenge at all)
Passver(i, kind, passcode, now) ==
    LET token == IF kind = "issued" THEN issued[i].token
                 ELSE IF kind = "tampered" THEN [issued[i].token EXCEPT !.sig = "forged"]
                 ELSE NoToken
        miss == kind = "issued" /\ passcode # issued[i].code
    IN  /\ i = 0 => kind = "absent"
        /\ i # 0 => issued[i].t0 <= now
        /\ issued' = IF miss /\ issued[i].wrong <= MaxAttempts
                      THEN [issued EXCEPT ![i].wrong = @ + 1] ELSE issued
        /\ last' = [NoCall EXCEPT !.op = "_passver", !.pw = passcode, !.tok = token,
                                  !.now = now, !.ch = i,
                                  !.out = IF _passver(passcode, token, now)
                                          THEN "True" ELSE "False"]
        /\ UNCHANGED <<archive, uploads, held, store, session, nextId, nextSalt, secret, calls>>

\* GET /service/auth/v1/verification/<_key> behind protected()
Generation(k, q, header, digits) ==
    LET r == generation(Str(k), q, digits)
        ran == protected(secret, header) = "handler"
    IN  /\ (ran /\ r.out = "200") => Len(issued) < MaxChallenges
        /\ issued' = IF ran /\ r.out = "200"
                      THEN Append(issued, [code |-> r.req.passcode, token |-> r.req.token,
                                           how |-> "none", t0 |-> 0, ttl |-> 0,
                                           wrong |-> 0])
                      ELSE issued
        /\ last' = [NoCall EXCEPT !.op = "generation", !.key = Str(k), !.query = q,
                                  !.header = header,
                                  !.out = IF ran THEN r.out ELSE "401"]
        /\ UNCHANGED <<archive, uploads, held, store, session, nextId, nextSalt, secret, calls>>

\* GET /service/auth/v1/verification/<_key>/<passcode> behind protected()
Verification(k, passcode, q, header, now) ==
    /\ last' = [NoCall EXCEPT !.op = "verification", !.key = Str(k), !.pw = passcode,
                              !.query = q, !.header = header, !.now = now,
                              !.out = IF protected(secret, header) = "handler"
                                      THEN verification(Str(k), passcode, q, now)
                                      ELSE "401"]
    /\ UNCHANGED <<archive, uploads, held, store, session, nextId, nextSalt, secret, calls, issued>>

\* the latest time of a verification
LastTime == MaxTime + MaxTtl

NextRoutes ==
    \/ \E k \in Keys, q \in Queries, h \in ApiKeys :
          \E d \in Draws(Str(k)) : Generation(k, q, h, d)
    \/ \E k \in Keys, p \in AllCodes, q \in Queries, h \in ApiKeys,
          now \in 0..LastTime : Verification(k, p, q, h, now)

\* passcodes generated at time 0 and verified at every later time
NextOtp ==
    \/ \E n \in 1..MaxLength, how \in {"none", "timedelta", "datetime"},
          ttl \in 0..MaxTtl :
          \E d \in Draws(Number(n)) : Passgen(Number(n), how, 0, ttl, d)
    \/ \E i \in 0..Len(issued), kind \in {"issued", "tampered", "absent"},
          p \in AllCodes \cup {None}, now \in 0..LastTime :
          Passver(i, kind, p, now)

\* the passcode calls of the core
SpecOtp == Init /\ [][NextOtp]_vars

\* what issues a passcode, and what makes a user: _signup, _passgen and the
\* generation route
NextIssue ==
    \/ \E c \in Collections, k \in Keys, d \in RaceDocs :
          Signup(c, k, None, d)
    \/ \E n \in 1..MaxLength, how \in {"none", "timedelta"}, ttl \in {0, MaxTtl} :
          \E d \in Draws(Number(n)) : Passgen(Number(n), how, 0, ttl, d)
    \/ \E k \in Keys, q \in Queries, h \in ApiKeys :
          \E d \in Draws(Str(k)) : Generation(k, q, h, d)

SpecIssue == Init /\ [][NextIssue]_vars

\* the routes alone, the secret configured or unset
SpecGate == InitConfig /\ [][NextRoutes]_vars

----------------------------------------------------------------------------
(* Properties *)

\* the records of the last call's collection that have the call's _key
WithKey(coll, _key) == SelectSeq(coll, LAMBDA d : Get(d, "_key") = _key)

\* C1: after any sequence of _signup and _refresh calls on a collection that
\* started empty, no two stored documents have the same _key.
C1_UniqueKeys ==
    \A c \in Collections : \A i, j \in 1..Len(store[c]) :
        i # j => Get(store[c][i], "_key") # Get(store[c][j], "_key")

\* C2: a _signup whose _key already has a record returns None and leaves
\* the collection and the session as they were.
C2_SignupExistingKey ==
    [][(last'.op = "_signup" /\ Len(WithKey(store[last'.coll], last'.key)) > 0)
         => (last'.out = "None" /\ store' = store /\ session' = session)]_vars

\* C2 happens: a _signup was refused for a key that has a record
C2_Witness ==
    /\ last.op = "_signup"
    /\ last.out = "None"
    /\ Len(WithKey(store[last.coll], last.key)) > 0

\* C4: the document a _signup inserts has the _key argument as its _key and
\* the hash of the _password argument (None when none was given) as its
\* _password, whatever the caller's document contains.
C4_InsertedDocument ==
    (last.op = "_signup" /\ last.out = "id") =>
        \A i \in 1..Len(store[last.coll]) :
            store[last.coll][i]["_id"] = last.ret =>
                /\ Get(store[last.coll][i], "_key") = last.key
                /\ IF last.pw = None
                   THEN Get(store[last.coll][i], "_password") = None
                   ELSE /\ Get(store[last.coll][i], "_password").t = "bcrypt"
                        /\ Get(store[last.coll][i], "_password").v = last.pw.v

\* the records a call's filter {"_key": _key, **query} selects
Target(coll, _key, query) == SelectSeq(coll, LAMBDA d : Matches(d, KeyFilter(_key, query)))

\* the supplied password is the one the record's stored hash was made from
Verifies(_password, doc) ==
    /\ _password # None
    /\ Get(doc, "_password").t = "bcrypt"
    /\ Get(doc, "_password").v = _password.v

Exceptions == {"TypeError", "AttributeError", "ValueError", "KeyError"}

\* C3: for a record whose stored _password is a hash, _signin returns a
\* token only when the supplied password verifies against it; every other
\* call (wrong password, no password) returns None and writes no session
\* entry.
C3_SigninVerifiesPassword ==
    [][LET t == Target(store[last'.coll], last'.key, last'.query)
       IN  (/\ last'.op = "_signin"
            /\ Len(t) = 1
            /\ Get(t[1], "_password").t = "bcrypt")
           => /\ last'.out = "token" => Verifies(last'.pw, t[1])
              /\ ~Verifies(last'.pw, t[1])
                    => (last'.out = "None" /\ session' = session)]_vars

C7_WrongPasswordLikeUnknownKey ==
    [][LET t == Target(store[last'.coll], last'.key, last'.query)
       IN  (/\ last'.op = "_signin" /\ last'.pw # None
            /\ Len(t) = 1 /\ ~Verifies(last'.pw, t[1]))
           => (last'.out = "None" /\ session' = session /\ store' = store)]_vars

\* C8: _signup, _signin, _retrieve and _refresh report a duplicate key, no
\* matching record and a credential that does not verify against the record
\* as stored (with or without a stored password) by returning None; none of
\* these cases raises.
C8_NegativeOutcomesReturnNone ==
    [][LET t == Target(store[last'.coll], last'.key, last'.query)
       IN  /\ (last'.op = "_signup"
                 /\ Len(WithKey(store[last'.coll], last'.key)) > 0)
              => last'.out = "None"
           /\ (last'.op \in {"_signin", "_retrieve", "_refresh"} /\ Len(t) = 0)
              => last'.out = "None"
           /\ (last'.op = "_signin" /\ Len(t) = 1 /\ last'.pw # None
                 /\ ~Verifies(last'.pw, t[1]))
              => last'.out \notin Exceptions]_vars

\* C9: after _signup(k, p) returned an id, the _signin(k, p) that follows
\* returns a token and stores that token in session[collection].
C9_SignupThenSignin ==
    [][(/\ last.op = "_signup" /\ last.out = "id" /\ last.doc = EmptyDict
        /\ last'.op = "_signin" /\ last'.coll = last.coll
        /\ last'.key = last.key /\ last'.pw = last.pw
        /\ last'.query = EmptyDict)
       => (/\ last'.out = "token"
           /\ last'.tok # NoToken
           /\ session'[last'.coll] = last'.tok)]_vars

\* C10: jwtdec(jwtenc(payload, ttl)), with ttl passed as _signin and
\* _passgen pass it, is the payload at every time before ttl has elapsed
\* since the encoding and None at every time after.
C10_TokenRoundTrip ==
    (last.op = "jwt" /\ last.exp.kind = "timedelta") =>
        /\ last.now < last.t0 + last.exp.n
              => (last.out = "content" /\ last.query = last.doc)
        /\ last.now > last.t0 + last.exp.n => last.out = "None"

----------------------------------------------------------------------------
(* Properties of _refresh and of interleaved calls *)

\* worker w's call of op goes from its check to its write in this step
Writes(w, op) ==
    calls[w].stage = "checked" /\ calls[w].op = op /\ calls'[w].stage = "done"

\* C11: _refresh modifies only records that match both _key and every field
\* of query: a record that does not match query at the time of the write is
\* left unchanged, whatever the store holds and however the calls interleave.
C11_RefreshOnlyMatching ==
    [][\A w \in Workers :
          Writes(w, "_refresh") =>
              LET c == calls[w].coll
              IN  \A i \in 1..Len(store[c]) :
                      store'[c][i] # store[c][i] =>
                          Matches(store[c][i], KeyFilter(calls[w].key, calls[w].query))]_vars

\* C12: no _refresh call changes the _key of an existing record: every
\* record's _key after the call equals its _key before the call.
C12_RefreshKeepsKey ==
    [][last'.op = "_refresh" =>
          \A c \in Collections : \A i \in 1..Len(store[c]) :
              Get(store'[c][i], "_key") = Get(store[c][i], "_key")]_vars

C13_RefreshHashesPassword ==
    [][last'.op = "_refresh" =>
          \A operation \in DOMAIN last'.doc :
              "_password" \in DOMAIN last'.doc[operation] =>
                  LET supplied == last'.doc[operation]["_password"]
                      c == last'.coll
                  IN  \A i \in 1..Len(store[c]) :
                          Get(store'[c][i], "_password") # Get(store[c][i], "_password")
                          => /\ Get(store'[c][i], "_password").t = "bcrypt"
                             /\ Get(store'[c][i], "_password").v = supplied.v
                             /\ Get(store'[c][i], "_password") # supplied]_vars

----------------------------------------------------------------------------
(* Properties of the one-time passcodes and of protected() *)

\* this step is a _passver call with the token of challenge i as issued
Verifying(i) ==
    /\ last'.op = "_passver" /\ last'.ch = i /\ i # 0
    /\ last'.tok = issued[i].token

\* C15: after more than maxAttempts verifications with wrong codes against
\* one issued challenge, every later verification of that challenge returns
\* False, the one with the correct code included.
C15_AttemptsExhausted ==
    [][\A i \in 1..Len(issued) :
          (Verifying(i) /\ issued[i].wrong > MaxAttempts) => last'.out = "False"]_vars

\* C16: a new passcode overwrites the prior challenge: once a later passcode
\* has been generated, the code and token of an earlier generation no longer
\* verify.
C16_NewPasscodeOverwrites ==
    [][\A i \in 1..Len(issued) :
          (/\ Verifying(i) /\ last'.pw = issued[i].code
           /\ i < Len(issued)
           /\ \A j \in (i + 1)..Len(issued) : issued[j].token # issued[i].token)
          => last'.out = "False"]_vars

\* C17: once the time-to-live of a challenge has elapsed since it was
\* generated, verification returns False for every submitted code.
C17_ExpiredNeverVerifies ==
    [][\A i \in 1..Len(issued) :
          (/\ Verifying(i) /\ issued[i].how # "none"
           /\ last'.now >= issued[i].t0 + issued[i].ttl)
          => last'.out = "False"]_vars

\* C18: _passver returns True only when the token decodes (valid signature,
\* not expired) and its payload equals the submitted passcode; for a token
\* that does not decode it returns False whatever the submitted passcode.
C18_PassverFailsClosed ==
    [][last'.op = "_passver" =>
          LET dec == jwtdec(last'.tok, last'.now)
          IN  /\ last'.out = "True" => (dec.ok /\ dec.content = last'.pw)
              /\ ~dec.ok => last'.out = "False"]_vars

\* C19: passcode generation for a key (plus query) that matches no user
\* record returns the not-found outcome and issues no code or token; a code
\* is produced only for an existing user.
C19_GenerationNeedsUser ==
    [][/\ (/\ last'.op = "generation" /\ last'.out # "401"
           /\ _find(store[MONGODB_AUTH_COLLECTION],
                    KeyFilter(last'.key, last'.query)).kind = "none")
          => (last'.out = "404" /\ issued' = issued)
       /\ Len(issued') > Len(issued) => Len(store[MONGODB_AUTH_COLLECTION]) > 0]_vars

\* C20: a request whose X-API-Key header is absent or differs from the
\* expected secret gets 401 and its handler does not run, whether the secret
\* is a string or unset.
C20_ProtectedRejects ==
    [][(/\ last'.op \in {"generation", "verification"}
        /\ (last'.header = None \/ last'.header # secret))
          => last'.out = "401"]_vars

----------------------------------------------------------------------------
(* Properties of the decorators, the handlers and the lookups *)

\* a token that decodes at time now to a session payload: a dict with a _key
SessionPayload(token, now) ==
    LET dec == jwtdec(token, now)
    IN  dec.ok /\ ~IsScalar(dec.content) /\ "_key" \in DOMAIN dec.content

\* C21: `authenticated` answers 401, without running the handler and without
\* raising, for every token that is no currently valid session token:
\* malformed, tampered or expired tokens, and validly signed tokens whose
\* payload is no session payload with a _key (a passcode token, an OAuth
\* state token).
C21_AuthenticatedRejectsOtherTokens ==
    [][(/\ last'.op = "authenticated" /\ last'.tok # NoToken
        /\ ~SessionPayload(last'.tok, last'.now))
          => last'.out = "401"]_vars

\* C22: the refresh handler and the storage patch handlers answer 404 only
\* when no record matched the filter; an update that matches a record and
\* modifies nothing is answered with 200 and the count 0.
C22_NotFoundOnlyWhenUnmatched ==
    [][(/\ last'.op \in {"refresh", "patch_one", "patch_many"}
        /\ last'.out \notin {"400", "401", "500"})
          => LET matched ==
                     _find(store[last'.coll],
                           PatchFilter(last'.op, last'.key, last'.doc)).kind # "none"
             IN  /\ last'.out = "404" => ~matched
                 /\ (matched /\ store' = store)
                       => (last'.out = "200" /\ last'.ret = Number(0))]_vars

\* C23: _signin and _retrieve return None whenever _key plus query matches
\* no record or more than one; they return a token or a document only when
\* exactly one record matches, and the document is then that record.
C23_AmbiguousKeyReturnsNone ==
    [][last'.op \in {"_signin", "_retrieve"} =>
          LET t == Target(store[last'.coll], last'.key, last'.query)
          IN  /\ Len(t) # 1 => (last'.out = "None" /\ session' = session)
              /\ last'.out \in {"token", "doc"} => Len(t) = 1
              /\ last'.out = "doc" => last'.doc = t[1]]_vars

\* a lookup that found several records and returned None
C23_Witness ==
    /\ last.op \in {"_signin", "_retrieve"}
    /\ Len(Target(store[last.coll], last.key, last.query)) > 1
    /\ last.out = "None"

\* the decoded state of a callback is unusable: it does not decode, it
\* lacks provider, redirect_uri or nonce, or its provider is not configured
StateRefused(state, now) ==
    LET dec == jwtdec(state, now)
    IN  \/ ~dec.ok
        \/ IsScalar(dec.content)
        \/ \E f \in {"provider", "redirect_uri", "nonce"} : ~Truthy(Get(dec.content, f))
        \/ Get(dec.content, "provider") \notin OAUTH_CONFIG

\* C24: _ocall returns None and sends no request to the token or userinfo
\* endpoint whenever the state fails to decode, lacks provider, redirect_uri
\* or nonce, or names a provider that is not configured; and it returns None
\* and sends no userinfo request when the token response carries no
\* access_token.
C24_OcallFailsClosed ==
    [][last'.op = "_ocall" =>
          /\ StateRefused(last'.tok, last'.now)
                => (last'.out = "None" /\ last'.sent = << >>)
          /\ (~StateRefused(last'.tok, last'.now) /\ last'.resp[1] = "error")
                => (last'.out = "None" /\ last'.sent = <<"token">>)]_vars

C26_TokenHidesPasscode ==
    \A i \in 1..Len(issued) : Unverified(issued[i].token) # issued[i].code

\* C27: the signup handler, given a body with a new _key and a non-empty
\* document, creates one user record that contains _key and the document's
\* fields and answers 200 with the new id; it answers 400 when _key is
\* missing or the key already exists.
C27_SignupHandlerStoresDocument ==
    [][(last'.op = "signup" /\ last'.out # "401") =>
          LET json == last'.doc
              _key == Get(json, "_key")
              document == Get(json, "document")
              before == store[last'.coll]
              after == store'[last'.coll]
          IN  /\ (Falsy(_key) \/ Len(WithKey(before, _key)) > 0)
                    => (last'.out = "400" /\ after = before)
              /\ (/\ ~Falsy(_key) /\ Len(WithKey(before, _key)) = 0
                  /\ ~IsScalar(document) /\ document # EmptyDict)
                    => /\ last'.out = "200"
                       /\ Len(after) = Len(before) + 1
                       /\ SubSeq(after, 1, Len(before)) = before
                       /\ Get(after[Len(after)], "_key") = _key
                       /\ \A f \in DOMAIN document :
                             Get(after[Len(after)], f) = document[f]
                       /\ last'.ret = Get(after[Len(after)], "_id")]_vars

\* C28: the retrieve handler, called without the `query` parameter, answers
\* 200 with the user document when exactly one record has the _key and 404
\* when none has; the absent query never produces a 500.
C28_RetrieveHandlerWithoutQuery ==
    [][(last'.op = "retrieve" /\ last'.out # "401" /\ last'.pw = None) =>
          LET t == WithKey(store[last'.coll], last'.key)
          IN  /\ Len(t) = 1 => (last'.out = "200" /\ last'.doc = t[1])
              /\ Len(t) = 0 => last'.out = "404"
              /\ last'.out # "500"]_vars

\* C29: the download handler sends the file located at the stored _filepath
\* of the referenced metadata record, with the stored _filename as the
\* download name, and answers 404 when the record or the file does not
\* exist.
C29_DownloadSendsStoredFile ==
    [][(last'.op = "download" /\ last'.out # "401") =>
          LET m == SelectSeq(archive, LAMBDA d : d["_id"] = last'.key)
          IN  IF Len(m) = 1 /\ m[1]["_filepath"] \in DOMAIN uploads
              THEN /\ last'.out = "200"
                   /\ last'.path = m[1]["_filepath"]
                   /\ last'.name = m[1]["_filename"]
                   /\ last'.body = uploads[m[1]["_filepath"]]
              ELSE last'.out = "404"]_vars

\* C30: after any sequence of _upload and _fdelete calls, each id returned
\* by _upload and not yet passed to _fdelete can still be downloaded:
\* _download(id) returns the path of an existing file that holds the content
\* uploaded under that id.
C30_UploadsStayDownloadable ==
    \A h \in held :
        LET r == _download(archive, uploads, h.id)
        IN  /\ r.raised = ""
            /\ r.pair[1] \in DOMAIN uploads
            /\ uploads[r.pair[1]] = h.content

====
